---- MODULE Spec2Model ----
(***************************************************************************)
(* Model of the pay-per-event charging manager (src/src/charging-manager.ts)*)
(* and of the push helper built on it (src/unnamed/part_001).              *)
(*                                                                         *)
(* Money is counted in units of 1e-5 USD, so that Number(x.toFixed(4)) is  *)
(* a real rounding (to a multiple of Tick) and not the identity.           *)
(*                                                                         *)
(* The draft code of charging-manager.ts names the same things twice:      *)
(* ppeChargeInfo is chargeState, maxCostPerRunUsd is maxTotalChargeUsd,    *)
(* numCharges is requestedChargeCount, and remainingGlobalCostUsd is read  *)
(* for its value.  Event prices are positive.  The configurations below    *)
(* are chosen so that toFixed never meets an exact decimal tie that would  *)
(* move the floor (its outcome would depend on the binary representation). *)
(***************************************************************************)
EXTENDS Integers, Sequences, FiniteSets, TLC

\* ---------------------------------------------------------------- bounds
MaxCalls == 3
MaxProcs == 2
MaxRequested == 6
MaxSeed == 3
MaxPaidItems == 2
MaxClock == 1

\* ------------------------------------------------------- program constants
Tick == 10
RatioScale == 10000
Infinity == 1000000000
RetryLimit == 5
USD == RatioScale * Tick

Procs == 1..MaxProcs
Events == {"e1", "e2", "e3"}
NoEvent == "none"
RequestedCounts == {-1, 0, 2, MaxRequested}

VARIABLES
    pricingInfo,          \* run record: event -> eventPriceUsd (empty: no pricing info)
    chargedEventCounts,   \* run record: the counts the platform has accepted
    optMaxTotalChargeUsd, \* run record: options.maxTotalChargeUsd (0: not given)
    atHome,               \* Actor.isAtHome()
    chargeState,          \* ChargingManager.chargeState
    maxTotalChargeUsd,    \* ChargingManager.maxTotalChargeUsd
    seeded,               \* chargeState as built by the last initialize
    calls,                \* the charge calls in flight, one slot per handler
    numCalls,             \* charge calls started so far
    resynced,             \* the process has crashed and resynced at least once
    metadataDataset,      \* event -> number of records appended to the metadata dataset
    chargeRequests,       \* number of charge requests posted to the platform
    exited,               \* Actor.exit was called
    limitReported,        \* events for which a finished call reported the limit
    MAX_ITEMS,            \* ACTOR_MAX_PAID_DATASET_ITEMS (0: not set)
    isInitialized,        \* module state of the pay-per-result push
    isGettingItemCount,
    pushedItemCount,
    dataset,              \* number of items in the Actor's default dataset
    pushes,               \* the pushDataPPEAware calls in flight, one slot per handler
    now,                  \* Date.now(), in milliseconds since the run started
    METADATA_DATASET_INFO, \* key-value store: id of the metadata dataset (0: null)
    datasets,             \* number of datasets the platform holds
    inits                 \* the initialize calls in flight, one slot per caller

vars == <<pricingInfo, chargedEventCounts, optMaxTotalChargeUsd, atHome,
          chargeState, maxTotalChargeUsd, seeded, calls, numCalls, resynced,
          metadataDataset, chargeRequests, exited, limitReported,
          MAX_ITEMS, isInitialized, isGettingItemCount, pushedItemCount, dataset,
          pushes, now, METADATA_DATASET_INFO, datasets, inits>>

pushVars == <<MAX_ITEMS, isInitialized, isGettingItemCount, pushedItemCount,
              dataset, pushes>>

runConfig == <<pricingInfo, optMaxTotalChargeUsd, atHome>>

initVars == <<METADATA_DATASET_INFO, datasets, inits>>

\* ------------------------------------------------------------ arithmetic

\* the quotient a / b (b > 0) rounded to the nearest integer, halves away from 0
RoundDiv(a, b) ==
    IF a >= 0 THEN (2 * a + b) \div (2 * b)
    ELSE 0 - ((2 * (0 - a) + b) \div (2 * b))

\* Number(x.toFixed(4)) of an amount of money
ToFixed4(x) == RoundDiv(x, Tick) * Tick

Min(a, b) == IF a <= b THEN a ELSE b

RECURSIVE SumCost(_, _)
SumCost(state, evs) ==
    IF evs = {} THEN 0
    ELSE LET e == CHOOSE x \in evs : TRUE
         IN ToFixed4(state[e].chargeCount * state[e].eventPriceUsd)
              + SumCost(state, evs \ {e})

\* ------------------------------------------------------- ChargingManager

\* the constructor's guard: a missing or zero option leaves Infinity
Constructor(optMax) == IF optMax # 0 THEN optMax ELSE Infinity

\* a resync that starts every count from zero
Initialize_FromZero(pricing, counts) ==
    IF counts.present /\ DOMAIN pricing # {}
    THEN [e \in DOMAIN pricing |-> [chargeCount |-> 0, eventPriceUsd |-> pricing[e]]]
    ELSE [e \in {} |-> [chargeCount |-> 0, eventPriceUsd |-> 0]]

\* initialize: the charge state built from the run record
Initialize(pricing, counts) ==
    IF counts.present /\ DOMAIN pricing # {}
    THEN [e \in DOMAIN pricing |->
            [chargeCount |-> IF e \in DOMAIN counts.counts THEN counts.counts[e] ELSE 0,
             eventPriceUsd |-> pricing[e]]]
    ELSE [e \in {} |-> [chargeCount |-> 0, eventPriceUsd |-> 0]]

remainingGlobalCostUsd(state, max) ==
    IF max = Infinity THEN Infinity
    ELSE ToFixed4(max - SumCost(state, DOMAIN state))

\* Math.floor(Number((a / b).toFixed(4))) for b > 0.  With a = q * b + r and
\* 0 <= r < b, the quotient rounded to 4 decimals reaches q + 1 exactly when
\* r / b >= 0.99995 (> for a negative quotient, whose halves round away from
\* zero), that is when (b - r) * 2 * RatioScale <= b.  Written with \div so that
\* no product leaves the 32-bit range.
FloorToFixed4(a, b) ==
    LET q == a \div b
        r == a % b
    IN IF r # 0 /\ (IF a >= 0 THEN b - r <= b \div (2 * RatioScale)
                              ELSE b - r <= (b - 1) \div (2 * RatioScale))
       THEN q + 1 ELSE q

countRemainingChargeCount(state, max, event) ==
    IF remainingGlobalCostUsd(state, max) = Infinity THEN Infinity
    ELSE FloorToFixed4(remainingGlobalCostUsd(state, max), state[event].eventPriceUsd)

\* a charge that forgets the clamp
ChargeableCount_NoClamp(requestedChargeCount, remainingChargeCount) ==
    requestedChargeCount

ChargeableCount(requestedChargeCount, remainingChargeCount) ==
    Min(requestedChargeCount, remainingChargeCount)

AddCharge(state, event, count) ==
    [state EXCEPT ![event].chargeCount = @ + count]

hasReachedChargeLimit(state, max) == remainingGlobalCostUsd(state, max) <= 0

\* eventMetadataItems: one record per charged unit, carrying metadata[i]
EventMetadataItems(state, event, count) ==
    [i \in 1..(IF count > 0 THEN count ELSE 0) |->
        [eventId |-> event,
         eventPriceUsd |-> state[event].eventPriceUsd,
         metadata |-> i - 1]]

\* ------------------------------------------------------------------ calls

\* a charge call: its position, its locals, the request it posted (the `now` of
\* its idempotency key, the retries made, whether it failed) and what it returned
\* (ChargeResult has the fields chargedCount and outcome, and no
\* eventChargeLimitReached)
IdleCall ==
    [pc |-> "idle", event |-> NoEvent, requestedChargeCount |-> 0,
     remainingChargeCount |-> 0, chargeableCount |-> 0,
     now |-> 0, retries |-> 0, requestFailed |-> FALSE,
     ret |-> "none", chargedCount |-> 0, outcome |-> "none",
     eventChargeLimitReached |-> "undefined"]

NewCall(event, requested) ==
    [IdleCall EXCEPT !.event = event, !.requestedChargeCount = requested]

Returned(call, count, outcome) ==
    [call EXCEPT !.pc = "done", !.ret = "object",
                 !.chargedCount = count, !.outcome = outcome]

\* an unregistered event answered as if its limit were reached
EventNotRegistered_AsLimit(call) == Returned(call, 0, "charge_limit_reached")

\* the object returned for an event that is not in the charge state (line 146)
EventNotRegistered(call) == Returned(call, 0, "event_not_registered")

\* the object returned when nothing more can be charged (line 151)
ChargeLimitReached(call) == Returned(call, 0, "charge_limit_reached")

InFlight(p) == calls[p].pc \in {"chargeRequest", "chargeResponse", "pushData"}

\* an initialize call: its position, its locals and the ledger it returns
IdleInit ==
    [pc |-> "idle", chargeState |-> [e \in {} |-> 0], metadataDatasetInfo |-> 0,
     metadataDataset |-> 0, maxTotalChargeUsd |-> 0]

IdlePush ==
    [pc |-> "idle", event |-> NoEvent, items |-> 0, data |-> 0, dataToPush |-> 0,
     pushed |-> 0, eventChargeLimitReached |-> FALSE, pushedItemCount |-> 0]

\* ------------------------------------------------------------------- Init

Budgets == {0, 3 * USD - Tick, 5 * USD}

Fn1(p1) == [e \in {"e1"} |-> p1]
Fn2(p1, p2) == [e \in {"e1", "e2"} |-> IF e = "e1" THEN p1 ELSE p2]
NoPricing == [e \in {} |-> 0]

Pricings(max) ==
    {NoPricing} \cup
    (IF max = 3 * USD - Tick THEN {Fn1(3 * USD), Fn2(3 * USD, USD + 4)}
     ELSE IF max = 5 * USD THEN {Fn1(USD), Fn1(2 * USD), Fn2(2 * USD, USD)}
     ELSE {Fn2(USD, USD)})

\* prior counts of the run record: e1 missing, 0, 2 or MaxSeed; e2 missing or 1
SeedMaps(pricing) ==
    {m \in UNION {[S -> {0, 1, 2, MaxSeed}] : S \in SUBSET (DOMAIN pricing)} :
        /\ "e1" \in DOMAIN m => m["e1"] # 1
        /\ "e2" \in DOMAIN m => m["e2"] = 1}

InitLedger ==
    /\ optMaxTotalChargeUsd \in Budgets
    /\ pricingInfo \in Pricings(optMaxTotalChargeUsd)
    /\ chargedEventCounts \in
          {[present |-> FALSE, counts |-> NoPricing]} \cup
          {[present |-> TRUE, counts |-> m] : m \in SeedMaps(pricingInfo)}
    /\ atHome \in BOOLEAN
    /\ chargeState = Initialize(pricingInfo, chargedEventCounts)
    /\ maxTotalChargeUsd = Constructor(optMaxTotalChargeUsd)
    /\ seeded = chargeState
    /\ calls = [p \in Procs |-> IdleCall]
    /\ numCalls = 0
    /\ resynced = FALSE
    /\ metadataDataset = [e \in Events |-> 0]
    /\ chargeRequests = 0
    /\ exited = FALSE
    /\ limitReported = {}
    /\ isInitialized = FALSE
    /\ isGettingItemCount = FALSE
    /\ pushedItemCount = 0
    /\ pushes = [p \in Procs |-> IdlePush]
    /\ now = 0
    /\ inits = [p \in Procs |-> IdleInit]

\* initialize has run: the metadata dataset exists and its pointer is stored
InitStore ==
    /\ METADATA_DATASET_INFO = 1
    /\ datasets = 1

\* a run without the pay-per-result cap and with an empty default dataset
Init ==
    /\ InitLedger
    /\ InitStore
    /\ MAX_ITEMS = 0
    /\ dataset = 0

\* ---------------------------------------------------------------- actions

\* charge, from its entry to its first await (lines 144-160)
Charge(p, event, requested) ==
    /\ ~exited
    /\ numCalls < MaxCalls
    /\ ~InFlight(p)
    /\ \A q \in Procs : q < p => InFlight(q)
    /\ numCalls' = numCalls + 1
    /\ IF event \notin DOMAIN chargeState
       THEN /\ calls' = [calls EXCEPT ![p] =
                  EventNotRegistered(NewCall(event, requested))]
            /\ UNCHANGED <<chargeState, limitReported, chargeRequests>>
       ELSE LET remaining == countRemainingChargeCount(chargeState, maxTotalChargeUsd, event)
                chargeable == ChargeableCount(requested, remaining)
                call == [NewCall(event, requested) EXCEPT
                            !.remainingChargeCount = remaining]
            IN IF remaining <= 0
               THEN /\ calls' = [calls EXCEPT ![p] = ChargeLimitReached(call)]
                    /\ limitReported' = limitReported \cup {event}
                    /\ UNCHANGED <<chargeState, chargeRequests>>
               ELSE IF atHome
               THEN /\ calls' = [calls EXCEPT ![p] =
                          [call EXCEPT !.pc = "chargeRequest",
                                       !.chargeableCount = chargeable,
                                       !.now = now]]
                    /\ chargeRequests' = chargeRequests + 1
                    /\ UNCHANGED <<chargeState, limitReported>>
               ELSE /\ calls' = [calls EXCEPT ![p] =
                          [call EXCEPT !.pc = "pushData",
                                       !.chargeableCount = chargeable]]
                    /\ chargeState' = AddCharge(chargeState, event, chargeable)
                    /\ UNCHANGED <<limitReported, chargeRequests>>
    /\ UNCHANGED <<runConfig, now, initVars, pushVars, chargedEventCounts, maxTotalChargeUsd, seeded,
                   resynced, metadataDataset, exited>>

\* the platform takes the charge request of chargeRequest (lines 6-19)
ChargeRequestAccepted(p) ==
    /\ ~exited
    /\ calls[p].pc = "chargeRequest"
    /\ calls[p].chargeableCount > 0
    /\ LET e == calls[p].event
           n == calls[p].chargeableCount
           old == IF e \in DOMAIN chargedEventCounts.counts
                  THEN chargedEventCounts.counts[e] ELSE 0
       IN chargedEventCounts' =
                [chargedEventCounts EXCEPT !.counts =
                    [x \in DOMAIN chargedEventCounts.counts \cup {e} |->
                        IF x = e THEN old + n ELSE chargedEventCounts.counts[x]]]
    /\ calls' = [calls EXCEPT ![p].pc = "chargeResponse"]
    /\ UNCHANGED <<runConfig, now, initVars, pushVars, chargeState, maxTotalChargeUsd, seeded, numCalls,
                   resynced, metadataDataset, chargeRequests, exited, limitReported>>

\* the charge request fails after its retries; the error is logged (lines 20-22)
ChargeRequestFailed(p) ==
    /\ ~exited
    /\ calls[p].pc = "chargeRequest"
    /\ calls' = [calls EXCEPT ![p].pc = "chargeResponse",
                              ![p].requestFailed = TRUE]
    /\ UNCHANGED <<runConfig, now, initVars, pushVars, chargedEventCounts, chargeState, maxTotalChargeUsd,
                   seeded, numCalls, resynced, metadataDataset, chargeRequests,
                   exited, limitReported>>

\* got sends the request again, with the options of the first attempt (lines 9-19)
ChargeRequestRetry(p) ==
    /\ ~exited
    /\ calls[p].pc = "chargeRequest"
    /\ calls[p].retries < RetryLimit
    /\ calls' = [calls EXCEPT ![p].retries = @ + 1]
    /\ UNCHANGED <<runConfig, now, initVars, pushVars, chargedEventCounts, chargeState,
                   maxTotalChargeUsd, seeded, numCalls, resynced, metadataDataset,
                   chargeRequests, exited, limitReported>>

\* a millisecond passes
ClockTick ==
    /\ ~exited
    /\ now < MaxClock
    /\ now' = now + 1
    /\ UNCHANGED <<runConfig, initVars, pushVars, chargedEventCounts, chargeState,
                   maxTotalChargeUsd, seeded, calls, numCalls, resynced,
                   metadataDataset, chargeRequests, exited, limitReported>>

\* charge resumes after `await chargeRequest` (lines 160-172)
ChargeResume(p) ==
    /\ ~exited
    /\ calls[p].pc = "chargeResponse"
    /\ chargeState' = AddCharge(chargeState, calls[p].event, calls[p].chargeableCount)
    /\ calls' = [calls EXCEPT ![p].pc = "pushData"]
    /\ UNCHANGED <<runConfig, now, initVars, pushVars, chargedEventCounts, maxTotalChargeUsd, seeded,
                   numCalls, resynced, metadataDataset, chargeRequests, exited,
                   limitReported>>

\* metadataDataset.pushData resolves and charge runs to its end (lines 172-186)
PushDataDone(p) ==
    /\ ~exited
    /\ calls[p].pc = "pushData"
    /\ metadataDataset' = [metadataDataset EXCEPT ![calls[p].event] = @ +
           Len(EventMetadataItems(chargeState, calls[p].event, calls[p].chargeableCount))]
    /\ \E mock \in BOOLEAN :
       IF (hasReachedChargeLimit(chargeState, maxTotalChargeUsd)
            \/ calls[p].chargeableCount < calls[p].requestedChargeCount)
             /\ ~mock
       THEN /\ calls' = [calls EXCEPT ![p].pc = "exit"]
            /\ exited' = TRUE
       ELSE /\ calls' = [calls EXCEPT ![p].pc = "done", ![p].ret = "undefined"]
            /\ UNCHANGED exited
    /\ UNCHANGED <<runConfig, now, initVars, pushVars, chargedEventCounts, chargeState, maxTotalChargeUsd,
                   seeded, numCalls, resynced, chargeRequests, limitReported>>

\* the process dies at any point and a new one resyncs with initialize (lines 87-111)
CrashAndResync ==
    /\ ~exited
    /\ resynced' = TRUE
    /\ chargeState' = Initialize(pricingInfo, chargedEventCounts)
    /\ maxTotalChargeUsd' = Constructor(optMaxTotalChargeUsd)
    /\ seeded' = chargeState'
    /\ calls' = [p \in Procs |-> IdleCall]
    /\ limitReported' = {}
    /\ isInitialized' = FALSE
    /\ isGettingItemCount' = FALSE
    /\ pushedItemCount' = 0
    /\ pushes' = [p \in Procs |-> IdlePush]
    /\ UNCHANGED <<runConfig, now, initVars, MAX_ITEMS, dataset, chargedEventCounts, numCalls,
                   metadataDataset, chargeRequests, exited>>

Sequential == \A q \in Procs : ~InFlight(q)

\* ------------------------------------------- initialize, await by await

\* initialize is called and asks for the run record (line 88)
InitializeStart(p) ==
    /\ inits[p].pc = "idle"
    /\ \A q \in Procs : q < p => inits[q].pc # "idle"
    /\ inits' = [inits EXCEPT ![p].pc = "runGet"]
    /\ UNCHANGED <<runConfig, now, pushVars, chargedEventCounts, chargeState,
                   maxTotalChargeUsd, seeded, calls, numCalls, resynced,
                   metadataDataset, chargeRequests, exited, limitReported,
                   METADATA_DATASET_INFO, datasets>>

\* the run record arrives: the charge state is built and the pointer is asked for
\* (lines 88-102)
RunGetDone(p) ==
    /\ inits[p].pc = "runGet"
    /\ inits' = [inits EXCEPT ![p].pc = "getValue",
                              ![p].chargeState = Initialize(pricingInfo, chargedEventCounts)]
    /\ UNCHANGED <<runConfig, now, pushVars, chargedEventCounts, chargeState,
                   maxTotalChargeUsd, seeded, calls, numCalls, resynced,
                   metadataDataset, chargeRequests, exited, limitReported,
                   METADATA_DATASET_INFO, datasets>>

\* Actor.getValue('METADATA_DATASET_INFO') resolves (lines 102-108)
GetValueDone(p) ==
    /\ inits[p].pc = "getValue"
    /\ inits' = [inits EXCEPT ![p].metadataDatasetInfo = METADATA_DATASET_INFO,
                              ![p].pc = IF METADATA_DATASET_INFO = 0
                                        THEN "getOrCreate" ELSE "openDataset"]
    /\ UNCHANGED <<runConfig, now, pushVars, chargedEventCounts, chargeState,
                   maxTotalChargeUsd, seeded, calls, numCalls, resynced,
                   metadataDataset, chargeRequests, exited, limitReported,
                   METADATA_DATASET_INFO, datasets>>

\* datasets().getOrCreate() without a name makes a new dataset (lines 105-106)
GetOrCreateDone(p) ==
    /\ inits[p].pc = "getOrCreate"
    /\ datasets' = datasets + 1
    /\ inits' = [inits EXCEPT ![p].metadataDatasetInfo = datasets + 1,
                              ![p].pc = "setValue"]
    /\ UNCHANGED <<runConfig, now, pushVars, chargedEventCounts, chargeState,
                   maxTotalChargeUsd, seeded, calls, numCalls, resynced,
                   metadataDataset, chargeRequests, exited, limitReported,
                   METADATA_DATASET_INFO>>

\* Actor.setValue('METADATA_DATASET_INFO', ...) resolves (lines 106-108)
SetValueDone(p) ==
    /\ inits[p].pc = "setValue"
    /\ METADATA_DATASET_INFO' = inits[p].metadataDatasetInfo
    /\ inits' = [inits EXCEPT ![p].pc = "openDataset"]
    /\ UNCHANGED <<runConfig, now, pushVars, chargedEventCounts, chargeState,
                   maxTotalChargeUsd, seeded, calls, numCalls, resynced,
                   metadataDataset, chargeRequests, exited, limitReported,
                   datasets>>

\* Actor.openDataset resolves and the ledger is constructed (lines 108-110)
OpenMetadataDatasetDone(p) ==
    /\ inits[p].pc = "openDataset"
    /\ inits' = [inits EXCEPT ![p].metadataDataset = inits[p].metadataDatasetInfo,
                              ![p].maxTotalChargeUsd = Constructor(optMaxTotalChargeUsd),
                              ![p].pc = "done"]
    /\ UNCHANGED <<runConfig, now, pushVars, chargedEventCounts, chargeState,
                   maxTotalChargeUsd, seeded, calls, numCalls, resynced,
                   metadataDataset, chargeRequests, exited, limitReported,
                   METADATA_DATASET_INFO, datasets>>

\* ------------------------------------------- pushDataPPEAware (part_001)

Max(a, b) == IF a >= b THEN a ELSE b

\* the length of array.slice(0, end) for an array of length len
SliceLen(len, end) == IF end >= 0 THEN Min(len, end) ELSE Max(len + end, 0)

PushBusy(p) == pushes[p].pc \notin {"idle", "done", "threw"}

\* pushDataPPRMaxAware from the end of its waiting loop to its return or to
\* `await Actor.pushData(dataToPush)` (lines 56-64), with the counter at `count`
AfterInit(push, count) ==
    LET dataToPush == SliceLen(push.data, MAX_ITEMS - count)
    IN IF dataToPush > 0
       THEN [push EXCEPT !.pc = "pprPushData", !.dataToPush = dataToPush]
       ELSE [push EXCEPT !.pc = "done", !.dataToPush = 0, !.pushed = 0,
                         !.eventChargeLimitReached = (count >= MAX_ITEMS),
                         !.pushedItemCount = count]

\* a counter that is not updated before the push is awaited
CounterAfterInit_NotUpdated(push, count) == count

CounterAfterInit(push, count) == count + SliceLen(push.data, MAX_ITEMS - count)

\* pushDataPPRMaxAware is called with an array of n items and runs to its first
\* await or to its return (lines 32-64)
PushDataPPRMaxAware(p, n) ==
    /\ ~exited
    /\ ~PushBusy(p)
    /\ LET push == [IdlePush EXCEPT !.items = n, !.data = n]
       IN IF MAX_ITEMS = 0
          THEN /\ pushes' = [pushes EXCEPT ![p] = [push EXCEPT !.pc = "actorPushData"]]
               /\ UNCHANGED <<isGettingItemCount, pushedItemCount>>
          ELSE IF ~isInitialized /\ ~isGettingItemCount
          THEN /\ pushes' = [pushes EXCEPT ![p] = [push EXCEPT !.pc = "openDataset"]]
               /\ isGettingItemCount' = TRUE
               /\ UNCHANGED pushedItemCount
          ELSE IF ~isInitialized
          THEN /\ pushes' = [pushes EXCEPT ![p] = [push EXCEPT !.pc = "sleep"]]
               /\ UNCHANGED <<isGettingItemCount, pushedItemCount>>
          ELSE /\ pushes' = [pushes EXCEPT ![p] = AfterInit(push, pushedItemCount)]
               /\ pushedItemCount' = CounterAfterInit(push, pushedItemCount)
               /\ UNCHANGED isGettingItemCount
    /\ UNCHANGED <<runConfig, now, initVars, chargedEventCounts, chargeState,
                   maxTotalChargeUsd, seeded, calls, numCalls, resynced,
                   metadataDataset, chargeRequests, exited, limitReported,
                   MAX_ITEMS, isInitialized, dataset>>

\* pushDataPPEAware is entered with an array of n items (lines 6-10)
PushDataPPEAware(p, event, n) ==
    /\ ~exited
    /\ numCalls < MaxCalls
    /\ ~PushBusy(p)
    /\ ~InFlight(p)
    /\ \A q \in Procs : q < p => PushBusy(q)
    /\ pushes' = [pushes EXCEPT ![p] =
           [IdlePush EXCEPT !.pc = "charge", !.event = event, !.items = n]]
    /\ calls' = [calls EXCEPT ![p] = IdleCall]
    /\ UNCHANGED <<runConfig, now, initVars, chargedEventCounts, chargeState, maxTotalChargeUsd,
                   seeded, numCalls, resynced, metadataDataset, chargeRequests,
                   exited, limitReported, MAX_ITEMS, isInitialized,
                   isGettingItemCount, pushedItemCount, dataset>>

\* its call of charge, one unit of the event per item (line 12)
ChargeForPush(p) ==
    /\ pushes[p].pc = "charge"
    /\ calls[p].pc = "idle"
    /\ Charge(p, pushes[p].event, pushes[p].items)

\* charge has returned: the items charged for are sliced off and handed to
\* pushDataPPRMaxAware, which runs to its first await (lines 12-17, 32-54)
ChargeReturned(p) ==
    /\ ~exited
    /\ pushes[p].pc = "charge"
    /\ calls[p].pc = "done"
    /\ IF calls[p].ret = "undefined"
       THEN /\ pushes' = [pushes EXCEPT ![p].pc = "threw"]
            /\ UNCHANGED <<isGettingItemCount, pushedItemCount>>
       ELSE LET push == [pushes[p] EXCEPT
                            !.data = SliceLen(pushes[p].items, calls[p].chargedCount)]
            IN IF MAX_ITEMS = 0
               THEN /\ pushes' = [pushes EXCEPT ![p] =
                          [push EXCEPT !.pc = "actorPushData"]]
                    /\ UNCHANGED <<isGettingItemCount, pushedItemCount>>
               ELSE IF ~isInitialized /\ ~isGettingItemCount
               THEN /\ pushes' = [pushes EXCEPT ![p] =
                          [push EXCEPT !.pc = "openDataset"]]
                    /\ isGettingItemCount' = TRUE
                    /\ UNCHANGED pushedItemCount
               ELSE IF ~isInitialized
               THEN /\ pushes' = [pushes EXCEPT ![p] = [push EXCEPT !.pc = "sleep"]]
                    /\ UNCHANGED <<isGettingItemCount, pushedItemCount>>
               ELSE /\ pushes' = [pushes EXCEPT ![p] = AfterInit(push, pushedItemCount)]
                    /\ pushedItemCount' = CounterAfterInit(push, pushedItemCount)
                    /\ UNCHANGED isGettingItemCount
    /\ UNCHANGED <<runConfig, now, initVars, chargedEventCounts, chargeState, maxTotalChargeUsd,
                   seeded, calls, numCalls, resynced, metadataDataset,
                   chargeRequests, exited, limitReported, MAX_ITEMS, isInitialized,
                   dataset>>

\* without the cap: Actor.pushData(dataAsArray) resolves (lines 35-38)
ActorPushDataDone(p) ==
    /\ ~exited
    /\ pushes[p].pc = "actorPushData"
    /\ dataset' = dataset + pushes[p].data
    /\ pushes' = [pushes EXCEPT ![p] =
           [pushes[p] EXCEPT !.pc = "done", !.pushed = pushes[p].data,
                             !.eventChargeLimitReached = FALSE,
                             !.pushedItemCount = pushes[p].data]]
    /\ UNCHANGED <<runConfig, now, initVars, chargedEventCounts, chargeState, maxTotalChargeUsd,
                   seeded, calls, numCalls, resynced, metadataDataset,
                   chargeRequests, exited, limitReported, MAX_ITEMS, isInitialized,
                   isGettingItemCount, pushedItemCount>>

\* Actor.openDataset resolves (line 44)
OpenDatasetDone(p) ==
    /\ ~exited
    /\ pushes[p].pc = "openDataset"
    /\ pushes' = [pushes EXCEPT ![p].pc = "getInfo"]
    /\ UNCHANGED <<runConfig, now, initVars, chargedEventCounts, chargeState, maxTotalChargeUsd,
                   seeded, calls, numCalls, resynced, metadataDataset,
                   chargeRequests, exited, limitReported, MAX_ITEMS, isInitialized,
                   isGettingItemCount, pushedItemCount, dataset>>

\* Actor.openDataset rejects: the call throws out of pushDataPPRMaxAware with
\* isGettingItemCount left set (lines 43-44)
OpenDatasetFailed(p) ==
    /\ ~exited
    /\ pushes[p].pc = "openDataset"
    /\ pushes' = [pushes EXCEPT ![p].pc = "threw"]
    /\ UNCHANGED <<runConfig, now, initVars, chargedEventCounts, chargeState,
                   maxTotalChargeUsd, seeded, calls, numCalls, resynced,
                   metadataDataset, chargeRequests, exited, limitReported,
                   MAX_ITEMS, isInitialized, isGettingItemCount, pushedItemCount,
                   dataset>>

\* dataset.getInfo rejects or resolves to undefined: the call throws in the same
\* way (lines 43-45)
GetInfoFailed(p) ==
    /\ ~exited
    /\ pushes[p].pc = "getInfo"
    /\ pushes' = [pushes EXCEPT ![p].pc = "threw"]
    /\ UNCHANGED <<runConfig, now, initVars, chargedEventCounts, chargeState,
                   maxTotalChargeUsd, seeded, calls, numCalls, resynced,
                   metadataDataset, chargeRequests, exited, limitReported,
                   MAX_ITEMS, isInitialized, isGettingItemCount, pushedItemCount,
                   dataset>>

\* dataset.getInfo resolves: the counter is loaded and the call goes on (lines 45-64)
GetInfoDone(p) ==
    /\ ~exited
    /\ pushes[p].pc = "getInfo"
    /\ isGettingItemCount' = FALSE
    /\ isInitialized' = TRUE
    /\ pushes' = [pushes EXCEPT ![p] = AfterInit(pushes[p], dataset)]
    /\ pushedItemCount' = CounterAfterInit(pushes[p], dataset)
    /\ UNCHANGED <<runConfig, now, initVars, chargedEventCounts, chargeState, maxTotalChargeUsd,
                   seeded, calls, numCalls, resynced, metadataDataset,
                   chargeRequests, exited, limitReported, MAX_ITEMS, dataset>>

\* the 50 ms timer of the waiting loop fires (lines 52-64)
SleepDone(p) ==
    /\ ~exited
    /\ pushes[p].pc = "sleep"
    /\ isInitialized
    /\ pushes' = [pushes EXCEPT ![p] = AfterInit(pushes[p], pushedItemCount)]
    /\ pushedItemCount' = CounterAfterInit(pushes[p], pushedItemCount)
    /\ UNCHANGED <<runConfig, now, initVars, chargedEventCounts, chargeState, maxTotalChargeUsd,
                   seeded, calls, numCalls, resynced, metadataDataset,
                   chargeRequests, exited, limitReported, MAX_ITEMS, isInitialized,
                   isGettingItemCount, dataset>>

\* with the cap: Actor.pushData(dataToPush) resolves (lines 61-64)
PprPushDataDone(p) ==
    /\ ~exited
    /\ pushes[p].pc = "pprPushData"
    /\ dataset' = dataset + pushes[p].dataToPush
    /\ pushes' = [pushes EXCEPT ![p] =
           [pushes[p] EXCEPT !.pc = "done", !.pushed = pushes[p].dataToPush,
                             !.eventChargeLimitReached = (pushedItemCount >= MAX_ITEMS),
                             !.pushedItemCount = pushedItemCount]]
    /\ UNCHANGED <<runConfig, now, initVars, chargedEventCounts, chargeState, maxTotalChargeUsd,
                   seeded, calls, numCalls, resynced, metadataDataset,
                   chargeRequests, exited, limitReported, MAX_ITEMS, isInitialized,
                   isGettingItemCount, pushedItemCount>>

Step(p) ==
    \/ ChargeRequestAccepted(p)
    \/ ChargeRequestFailed(p)
    \/ ChargeResume(p)
    \/ PushDataDone(p)

\* concurrent handlers, one charge call each, interleaving at the awaits of charge
Next ==
    \/ \E p \in Procs, e \in Events, n \in RequestedCounts :
          calls[p].pc = "idle" /\ Charge(p, e, n)
    \/ \E p \in Procs : Step(p)

Spec == Init /\ [][Next]_vars

\* charge calls executed one after another
NextSeq ==
    \/ \E e \in Events, n \in RequestedCounts : Sequential /\ Charge(1, e, n)
    \/ Step(1)

SpecSeq == Init /\ [][NextSeq]_vars

\* charge calls for one or more units, one after another, in a process that may
\* crash at any step and resync
NextCrash ==
    \/ \E e \in Events, n \in {2, MaxRequested} : Sequential /\ Charge(1, e, n)
    \/ Step(1)
    \/ CrashAndResync

SpecCrash == Init /\ [][NextCrash]_vars

\* a run with or without the pay-per-result cap
InitPush ==
    /\ InitLedger
    /\ InitStore
    /\ MAX_ITEMS \in {0, MaxPaidItems}
    /\ dataset \in (IF MAX_ITEMS = 0 THEN {0} ELSE {0, 1})

ItemCounts == {0, 2, MaxRequested}

\* pushDataPPEAware calls executed one after another
NextPush ==
    \/ \E e \in Events, n \in ItemCounts : PushDataPPEAware(1, e, n)
    \/ ChargeForPush(1)
    \/ Step(1)
    \/ ChargeReturned(1)
    \/ ActorPushDataDone(1)
    \/ OpenDatasetDone(1)
    \/ GetInfoDone(1)

SpecPush == InitPush /\ [][NextPush]_vars

\* a process that has not initialized yet: either nothing is stored, or a prior
\* process instance has created the metadata dataset and stored its pointer
InitInit ==
    /\ InitLedger
    /\ MAX_ITEMS = 0
    /\ dataset = 0
    /\ METADATA_DATASET_INFO \in {0, 1}
    /\ datasets = METADATA_DATASET_INFO

\* concurrent initialize calls, interleaving at their awaits
NextInit ==
    \E p \in Procs :
        \/ InitializeStart(p)
        \/ RunGetDone(p)
        \/ GetValueDone(p)
        \/ GetOrCreateDone(p)
        \/ SetValueDone(p)
        \/ OpenMetadataDatasetDone(p)

SpecInit == InitInit /\ [][NextInit]_vars

\* a pay-per-result run: no pricing info, the cap is set and the default
\* dataset holds the items of the run so far
InitPPR ==
    /\ InitLedger
    /\ InitStore
    /\ pricingInfo = NoPricing
    /\ MAX_ITEMS = MaxPaidItems
    /\ dataset \in 0..MAX_ITEMS

DataLengths == 0..(MaxPaidItems + 1)

\* concurrent handlers calling pushDataPPRMaxAware again and again,
\* interleaving at its awaits
NextPPR ==
    \/ \E p \in Procs, n \in DataLengths : PushDataPPRMaxAware(p, n)
    \/ \E p \in Procs : OpenDatasetDone(p)
    \/ \E p \in Procs : GetInfoDone(p)
    \/ \E p \in Procs : SleepDone(p)
    \/ \E p \in Procs : PprPushDataDone(p)

SpecPPR == InitPPR /\ [][NextPPR]_vars

\* every await of a call settles: a promise of the platform resolves or rejects,
\* and the timer of the waiting loop fires
Settles(p) ==
    /\ WF_vars(OpenDatasetDone(p) \/ OpenDatasetFailed(p))
    /\ WF_vars(GetInfoDone(p) \/ GetInfoFailed(p))
    /\ WF_vars(SleepDone(p))
    /\ WF_vars(PprPushDataDone(p))

\* the same handlers, with a dataset open and an info fetch that may fail
NextBarrier ==
    \/ NextPPR
    \/ \E p \in Procs : OpenDatasetFailed(p)
    \/ \E p \in Procs : GetInfoFailed(p)

SpecBarrier == InitPPR /\ [][NextBarrier]_vars /\ \A p \in Procs : Settles(p)

\* the handlers under the same scheduling, with a platform that does not fail
SpecBarrierNoFailure == InitPPR /\ [][NextPPR]_vars /\ \A p \in Procs : Settles(p)

\* concurrent handlers, one charge call of 2 units each, with the clock running
\* and the attempts of a charge request told apart
NextKeys ==
    \/ \E p \in Procs, e \in Events :
          calls[p].pc = "idle" /\ Charge(p, e, 2)
    \/ \E p \in Procs : Step(p)
    \/ \E p \in Procs : ChargeRequestRetry(p)
    \/ ClockTick

SpecKeys == Init /\ [][NextKeys]_vars

\* ------------------------------------------------------------ properties

\* the money committed by a charge state: the sum of chargeCount x eventPriceUsd
RECURSIVE CommittedCost(_, _)
CommittedCost(state, evs) ==
    IF evs = {} THEN 0
    ELSE LET e == CHOOSE x \in evs : TRUE
         IN state[e].chargeCount * state[e].eventPriceUsd
              + CommittedCost(state, evs \ {e})

Committed(state) == CommittedCost(state, DOMAIN state)

\* the count the run record holds for an event (0 when the map has no entry)
PriorCount(e) ==
    IF e \in DOMAIN chargedEventCounts.counts THEN chargedEventCounts.counts[e] ELSE 0

\* the cost of the units the platform has accepted
RECURSIVE AcceptedCost(_)
AcceptedCost(evs) ==
    IF evs = {} THEN 0
    ELSE LET e == CHOOSE x \in evs : TRUE
         IN PriorCount(e) * pricingInfo[e] + AcceptedCost(evs \ {e})

Remaining(state, e) == countRemainingChargeCount(state, maxTotalChargeUsd, e)

\* C1 (SpecSeq): with a finite budget and seeded counts that cost no more than
\* the budget, the committed spend never exceeds maxTotalChargeUsd.
C1_BudgetCap ==
    (maxTotalChargeUsd # Infinity /\ Committed(seeded) <= maxTotalChargeUsd)
        => Committed(chargeState) <= maxTotalChargeUsd

\* C2 (Spec): read, clamp and update of concurrent calls act as one atomic step,
\* so the count a call has clamped and is about to add to chargeCount is still
\* within the units the budget affords.
C2_AtomicClamp ==
    \A p \in Procs :
        calls[p].pc \in {"chargeRequest", "chargeResponse"}
            => calls[p].chargeableCount <= Remaining(chargeState, calls[p].event)

\* C3 (SpecCrash): after a crash and a resync that found the accepted units
\* within the budget, the units the platform has accepted never cost more than
\* maxTotalChargeUsd.
C3_CrashResync ==
    (resynced /\ maxTotalChargeUsd # Infinity
        /\ Committed(seeded) <= maxTotalChargeUsd)
        => AcceptedCost(DOMAIN pricingInfo) <= maxTotalChargeUsd

\* a step of initialize in a restarted process
IsResync == numCalls' = numCalls /\ calls' = [p \in Procs |-> IdleCall]

\* the run record holds, for every registered event, the in-memory chargeCount
RecordMatchesMemory ==
    /\ chargedEventCounts.present
    /\ \A e \in DOMAIN chargeState : PriorCount(e) = chargeState[e].chargeCount

ResyncReproduces ==
    (IsResync /\ RecordMatchesMemory) =>
        /\ DOMAIN chargeState' = DOMAIN chargeState
        /\ remainingGlobalCostUsd(chargeState', maxTotalChargeUsd')
             = remainingGlobalCostUsd(chargeState, maxTotalChargeUsd)
        /\ \A e \in DOMAIN chargeState :
             countRemainingChargeCount(chargeState', maxTotalChargeUsd', e)
               = countRemainingChargeCount(chargeState, maxTotalChargeUsd, e)

ResyncSeeds ==
    (IsResync /\ chargedEventCounts.present) =>
        \A e \in DOMAIN chargeState' :
            /\ e \notin DOMAIN chargedEventCounts.counts
                 => chargeState'[e].chargeCount = 0
            /\ e \in DOMAIN chargedEventCounts.counts
                 => chargeState'[e].chargeCount = chargedEventCounts.counts[e]

\* a freshly initialized ledger of one $1 event with prior count 3 and budget $5
ScenarioE ==
    (/\ chargeState = seeded
     /\ DOMAIN chargeState = {"e1"}
     /\ maxTotalChargeUsd = 5 * USD
     /\ chargeState["e1"].eventPriceUsd = USD
     /\ PriorCount("e1") = 3
     /\ chargeState["e1"].chargeCount = PriorCount("e1"))
        => Remaining(chargeState, "e1") = 2

\* C4 (SpecCrash): a resync from a run record that holds the in-memory counts
\* reproduces the remaining budget and every event's affordable units; seeded
\* counts are subtracted from the budget and a missing count is seeded with 0.
C4_IdempotentResync ==
    /\ []ScenarioE
    /\ [][ResyncReproduces /\ ResyncSeeds]_vars

\* C4 witness: a ledger resynced from the counts the platform accepted during
\* the run (4 units at $1, budget $5), with the one remaining unit affordable
C4_Witness ==
    /\ resynced
    /\ chargeRequests > 0
    /\ chargeState = seeded
    /\ DOMAIN chargeState = {"e1"}
    /\ maxTotalChargeUsd = 5 * USD
    /\ chargeState["e1"].eventPriceUsd = USD
    /\ chargeState["e1"].chargeCount = 4
    /\ PriorCount("e1") = 4
    /\ Remaining(chargeState, "e1") = 1

\* a step in which charge is entered (by handler 1, the only one of SpecSeq)
IsCharge == numCalls' = numCalls + 1

\* the step's call passed both checks and clamped
Clamped == IsCharge /\ calls'[1].pc \in {"chargeRequest", "pushData"}

ClampIsMin ==
    Clamped =>
        LET requested == calls'[1].requestedChargeCount
            affordable == Remaining(chargeState, calls'[1].event)
            charged == calls'[1].chargeableCount
        IN /\ affordable >= 1
           /\ charged = (IF requested <= affordable THEN requested ELSE affordable)
           /\ charged <= requested
           /\ (charged = requested) <=> (requested <= affordable)

\* the count added to chargeCount is the clamped count of the call
ChargedIsClamped ==
    chargeState' # chargeState =>
        /\ DOMAIN chargeState' = DOMAIN chargeState
        /\ \A e \in DOMAIN chargeState :
             chargeState'[e].chargeCount - chargeState[e].chargeCount
               = (IF e = calls'[1].event THEN calls'[1].chargeableCount ELSE 0)

\* C5 (SpecSeq): the count charged by a call on a registered event with an
\* affordable unit is min(requestedCount, unitsAffordable at call time); it never
\* exceeds the request and equals it exactly when the request was affordable.
C5_Clamp == [][ClampIsMin /\ ChargedIsClamped]_vars

\* C5 witness: a call was clamped below its request and its units were charged
C5_Witness ==
    /\ calls[1].pc = "pushData"
    /\ calls[1].chargeableCount >= 1
    /\ calls[1].chargeableCount < calls[1].requestedChargeCount
    /\ calls[1].chargeableCount = calls[1].remainingChargeCount
    /\ chargeState[calls[1].event].chargeCount
         = seeded[calls[1].event].chargeCount + calls[1].chargeableCount

\* C6 (SpecSeq): once a call has reported the charge limit for an event, every
\* later call for that event returns chargedCount 0, charge_limit_reached.
C6_MonotoneExhaustion ==
    [][(IsCharge /\ calls'[1].event \in limitReported) =>
          /\ calls'[1].ret = "object"
          /\ calls'[1].outcome = "charge_limit_reached"
          /\ calls'[1].chargedCount = 0]_vars

\* C7 (SpecSeq): a charge call for an event outside the charge state returns
\* event_not_registered without a limit report, whatever the remaining budget,
\* and changes no chargeCount, posts no charge request and appends no record.
C7_Unregistered ==
    [][(IsCharge /\ calls'[1].event \notin DOMAIN chargeState) =>
          /\ calls'[1].pc = "done"
          /\ calls'[1].ret = "object"
          /\ calls'[1].outcome = "event_not_registered"
          /\ limitReported' = limitReported
          /\ chargeState' = chargeState
          /\ chargedEventCounts' = chargedEventCounts
          /\ chargeRequests' = chargeRequests
          /\ metadataDataset' = metadataDataset]_vars

\* C7 witness: an unregistered event was answered while the budget of the
\* registered events was exhausted and after units had been charged
C7_Witness ==
    /\ calls[1].pc = "done"
    /\ calls[1].event \notin DOMAIN chargeState
    /\ calls[1].outcome = "event_not_registered"
    /\ DOMAIN chargeState # {}
    /\ \A e \in DOMAIN chargeState : Remaining(chargeState, e) <= 0
    /\ chargeState # seeded
    /\ metadataDataset[calls[1].event] = 0

\* C8 (SpecSeq): a call for an event absent from the pricing schedule, made with
\* N metadata entries, returns chargedCount N.
C8_FreePassThrough ==
    \A p \in Procs :
        (calls[p].outcome = "event_not_registered"
            /\ calls[p].requestedChargeCount >= 0)
            => calls[p].chargedCount = calls[p].requestedChargeCount

\* C9 (SpecPush): with an empty charge state pushDataPPEAware pushes every item
\* it is given, limited only by the room MAX_ITEMS leaves when that cap is set.
C9_BackwardCompatible ==
    \A p \in Procs :
        (pushes[p].pc = "done" /\ DOMAIN chargeState = {})
            => pushes[p].pushed =
                 (IF MAX_ITEMS = 0 THEN pushes[p].items
                  ELSE Min(pushes[p].items,
                           Max(MAX_ITEMS - (pushedItemCount - pushes[p].pushed), 0)))

\* C10 (SpecSeq): a call that charged at least one unit returns outcome
\* charge_successful (with the limit report recomputed after the update).
C10_LimitReachedReport ==
    \A p \in Procs :
        (calls[p].pc \in {"done", "exit"} /\ calls[p].chargeableCount >= 1)
            => /\ calls[p].ret = "object"
               /\ calls[p].outcome = "charge_successful"
               /\ calls[p].chargedCount = calls[p].chargeableCount

\* a charge call whose charge request has failed and that has come to its end
FailedAndFinished(p) == calls[p].requestFailed /\ calls[p].pc \in {"done", "exit"}

\* such a call returns the clamped count as charge_successful
FailedStillSuccessful ==
    \A p \in Procs :
        FailedAndFinished(p) =>
            /\ calls[p].ret = "object"
            /\ calls[p].outcome = "charge_successful"
            /\ calls[p].chargedCount = calls[p].chargeableCount

\* after the failure the increment is applied and never taken back, and the
\* records of the charged units are appended
FailedKeepsCharge ==
    \A p \in Procs :
        calls[p].requestFailed =>
            LET e == calls[p].event
                n == calls[p].chargeableCount
            IN /\ (calls[p].pc = "chargeResponse" /\ calls'[p].pc # "chargeResponse")
                    => chargeState' = AddCharge(chargeState, e, n)
               /\ (calls[p].pc = "pushData" /\ calls'[p].pc # "pushData")
                    => /\ chargeState' = chargeState
                       /\ metadataDataset'[e] = metadataDataset[e] + Max(n, 0)
                       /\ calls'[p].pc \in {"done", "exit"}

\* C11 (SpecSeq): a charge call whose charge request fails still completes with
\* outcome charge_successful and the clamped chargedCount, keeps the increment of
\* chargeCount and appends the metadata records.
C11_NotificationFailure ==
    /\ []FailedStillSuccessful
    /\ [][FailedKeepsCharge]_vars

\* a step in which the charge call of handler 1 comes to its end
Finishes ==
    \/ IsCharge /\ calls'[1].pc = "done"
    \/ calls[1].pc = "pushData" /\ calls'[1].pc \in {"done", "exit"}

\* the records a step appends for an event are as many as the chargedCount the
\* call returns in that step; no other step appends a record
RecordsAsReturned ==
    \A e \in Events :
        LET appended == metadataDataset'[e] - metadataDataset[e]
        IN IF Finishes /\ calls'[1].event = e
           THEN appended > 0 =>
                   /\ calls'[1].ret = "object"
                   /\ appended = calls'[1].chargedCount
           ELSE appended = 0

\* the records a step appends are as many as the units the call charged
RecordsAsCharged ==
    \A e \in Events :
        metadataDataset'[e] - metadataDataset[e] =
            (IF calls[1].pc = "pushData" /\ calls'[1].pc # "pushData" /\ calls[1].event = e
             THEN Max(calls[1].chargeableCount, 0) ELSE 0)

\* the i-th record of a call carries metadata[i], the event's id and its price
RecordContents ==
    \A e \in DOMAIN chargeState, n \in RequestedCounts :
        LET items == EventMetadataItems(chargeState, e, n)
        IN /\ Len(items) = Max(n, 0)
           /\ \A i \in 1..Len(items) :
                 /\ items[i].metadata = i - 1
                 /\ items[i].eventId = e
                 /\ items[i].eventPriceUsd = chargeState[e].eventPriceUsd

\* C12 (SpecSeq): the metadata log holds, for every event, as many records as
\* the sum of the chargedCount returned for it; the i-th record of a call carries
\* metadata[i], and rejected or clamped-off units produce no record.
C12_OneRecordPerUnit ==
    /\ []RecordContents
    /\ [][RecordsAsReturned]_vars

\* the units the charge call of a pushDataPPEAware call has charged
UnitsCharged(p) ==
    IF calls[p].pc \in {"pushData", "done", "exit"} THEN Max(calls[p].chargeableCount, 0)
    ELSE 0

\* a pushDataPPEAware call for a registered event has come to its end
PushEnded(p) ==
    pushes[p].pc \in {"done", "threw"} /\ pushes[p].event \in DOMAIN chargeState

\* no more items are pushed than units were charged
PushedWithinCharged ==
    \A p \in Procs :
        PushEnded(p) => /\ pushes[p].data <= UnitsCharged(p)
                        /\ pushes[p].pushed <= pushes[p].data

\* C13 (SpecPush): a pushDataPPEAware call for a registered event hands to the
\* dataset push exactly the first chargedCount items of its input, so no more
\* items are pushed for an event than units were charged for it.
C13_OnlyChargedItems ==
    \A p \in Procs :
        PushEnded(p) =>
            /\ pushes[p].data = Min(pushes[p].items, UnitsCharged(p))
            /\ pushes[p].pushed <= UnitsCharged(p)

\* the initialize calls that have returned their ledger
Initialized == {p \in Procs : inits[p].pc = "done"}

\* an initialize call that finds a stored pointer uses its dataset and makes none
ReusesPointer ==
    [][\A p \in Procs :
          (inits[p].pc = "getValue" /\ inits'[p].pc # "getValue"
              /\ METADATA_DATASET_INFO # 0)
            => /\ inits'[p].pc = "openDataset"
               /\ inits'[p].metadataDatasetInfo = METADATA_DATASET_INFO
               /\ datasets' = datasets]_vars

\* C14 (SpecInit): concurrent initialize calls create at most one metadata
\* dataset and all the ledgers they return use the same dataset; a pointer stored
\* by a prior process instance is reused and no dataset is created.
C14_SingleLogDestination ==
    /\ [](datasets <= 1)
    /\ [](\A p, q \in Initialized : inits[p].metadataDataset = inits[q].metadataDataset)
    /\ ReusesPointer

\* C15 (SpecSeq): in the step in which a charge call posts its charge request,
\* the chargeCount of the event already holds the clamped count of the call.
C15_UpdateBeforeNotify ==
    [][chargeRequests' # chargeRequests =>
          /\ chargeRequests' = chargeRequests + 1
          /\ chargeState' = AddCharge(chargeState, calls'[1].event,
                                      calls'[1].chargeableCount)]_vars

\* a step in which charge is entered for a registered event with no affordable unit
IsRejected ==
    /\ IsCharge
    /\ calls'[1].event \in DOMAIN chargeState
    /\ Remaining(chargeState, calls'[1].event) <= 0

\* the rejected call returns chargedCount 0, charge_limit_reached, and changes no
\* chargeCount, posts no charge request and appends no record
RejectedChangesNothing ==
    IsRejected =>
        /\ calls'[1].pc = "done"
        /\ calls'[1].ret = "object"
        /\ calls'[1].chargedCount = 0
        /\ calls'[1].outcome = "charge_limit_reached"
        /\ chargeState' = chargeState
        /\ chargeRequests' = chargeRequests
        /\ chargedEventCounts' = chargedEventCounts
        /\ metadataDataset' = metadataDataset

\* C16 (SpecSeq): a charge call for a registered event whose affordable units are
\* <= 0 returns chargedCount 0, charge_limit_reached and limit-reached true, and
\* changes no chargeCount, posts no charge request and appends no record.
C16_RejectedChangesNothing ==
    [][/\ RejectedChangesNothing
       /\ IsRejected => calls'[1].eventChargeLimitReached = "true"]_vars

\* no step lowers the chargeCount of a registered event
CountsNeverDecrease ==
    \A e \in DOMAIN chargeState :
        /\ e \in DOMAIN chargeState'
        /\ chargeState'[e].chargeCount >= chargeState[e].chargeCount

\* no chargeCount is below the count seeded by initialize
CountsAtLeastSeeded ==
    \A e \in DOMAIN chargeState :
        chargeState[e].chargeCount >= seeded[e].chargeCount

\* C17 (SpecSeq): for every registered event chargeCount never decreases, for
\* any requested count (zero and negative included), and it is never below the
\* count seeded from the run record.
C17_MonotoneCounts ==
    /\ []CountsAtLeastSeeded
    /\ [][CountsNeverDecrease]_vars

\* the idempotency key of the charge request of a call (the run id is the same
\* for every call of the run)
IdempotencyKey(call) == <<call.event, call.now>>

\* the call has posted a charge request
Posted(p) == atHome /\ InFlight(p)

\* two charge requests posted by different calls carry different keys
KeysDiffer ==
    \A p, q \in Procs :
        (p # q /\ Posted(p) /\ Posted(q))
            => IdempotencyKey(calls[p]) # IdempotencyKey(calls[q])

\* the retries of a charge request carry the key of its first attempt
RetriesKeepKey ==
    \A p \in Procs :
        (calls[p].pc = "chargeRequest" /\ calls'[p].retries # calls[p].retries)
            => IdempotencyKey(calls'[p]) = IdempotencyKey(calls[p])

\* C18 (SpecKeys): two distinct charge requests for the same event carry
\* different idempotency keys, also when posted at the same clock reading, and
\* the retries of one request reuse its key.
C18_DistinctKeys ==
    /\ []KeysDiffer
    /\ [][RetriesKeepKey]_vars

\* the items of the pushes that are awaited
RECURSIVE BeingPushed(_)
BeingPushed(ps) ==
    IF ps = {} THEN 0
    ELSE LET p == CHOOSE x \in ps : TRUE
         IN (IF pushes[p].pc = "pprPushData" THEN pushes[p].dataToPush ELSE 0)
              + BeingPushed(ps \ {p})

\* the dataset never holds more than MAX_ITEMS items, the pushes in flight counted
WithinMaxItems ==
    /\ dataset + BeingPushed(Procs) <= MAX_ITEMS
    /\ isInitialized => pushedItemCount = dataset + BeingPushed(Procs)

\* no call has sliced its data before the counter was loaded
SlicedAfterLoad ==
    \A p \in Procs : pushes[p].pc \in {"pprPushData", "done"} => isInitialized

\* the counter is loaded by one call, once
LoadedOnce ==
    /\ Cardinality({p \in Procs : pushes[p].pc \in {"openDataset", "getInfo"}})
          = (IF isGettingItemCount THEN 1 ELSE 0)
    /\ ~(isInitialized /\ isGettingItemCount)

\* once loaded, the counter stays loaded and only grows
StaysLoaded ==
    isInitialized => /\ isInitialized'
                     /\ ~isGettingItemCount'
                     /\ pushedItemCount' >= pushedItemCount

\* shouldStop of a returning call is true exactly when the counter has reached
\* MAX_ITEMS
ShouldStopAtMax ==
    \A p \in Procs :
        (pushes'[p] # pushes[p] /\ pushes'[p].pc = "done")
            => /\ pushes'[p].eventChargeLimitReached <=> (pushedItemCount' >= MAX_ITEMS)
               /\ pushes'[p].pushedItemCount = pushedItemCount'

\* C19 (SpecPPR): with MAX_ITEMS set and concurrent pushDataPPRMaxAware calls,
\* the dataset never holds more than MAX_ITEMS items, no call slices before the
\* counter is loaded, the counter is loaded once, and shouldStop is true exactly
\* when pushedItemCount >= MAX_ITEMS.
C19_ResultCap ==
    /\ [](WithinMaxItems /\ SlicedAfterLoad /\ LoadedOnce)
    /\ [][StaysLoaded /\ ShouldStopAtMax]_vars

\* C19 witness: two calls await their push at once, the counter has reached
\* MAX_ITEMS and the second call was cut short
C19_Witness ==
    /\ pushes[1].pc = "pprPushData"
    /\ pushes[2].pc = "pprPushData"
    /\ pushes[2].dataToPush >= 1
    /\ pushes[2].dataToPush < pushes[2].data
    /\ pushedItemCount = MAX_ITEMS
    /\ dataset < MAX_ITEMS

\* the call of handler p has charged at least one unit and updated chargeCount
HasCharged(p) ==
    /\ calls[p].pc \in {"pushData", "done", "exit"}
    /\ calls[p].event \in DOMAIN chargeState
    /\ calls[p].chargeableCount >= 1

\* the units the call of handler p has charged, alone, fit the budget left by
\* the seeded counts
FitsAlone(p) ==
    Committed(seeded)
        + calls[p].chargeableCount * chargeState[calls[p].event].eventPriceUsd
      <= maxTotalChargeUsd

\* C20 (Spec): when charge calls for two different registered events were in
\* flight at once and both have charged units that the budget affords, their
\* combined committed spend is still within maxTotalChargeUsd.
C20_SharedBudget ==
    \A p, q \in Procs :
        (/\ calls[p].event # calls[q].event
         /\ HasCharged(p)
         /\ HasCharged(q)
         /\ maxTotalChargeUsd # Infinity
         /\ FitsAlone(p)
         /\ FitsAlone(q))
            => Committed(chargeState) <= maxTotalChargeUsd

\* C21 (SpecBarrier): under fair scheduling every pushDataPPRMaxAware call that
\* waits in the polling loop for the counter eventually leaves the loop and
\* returns, also when the dataset open or the info fetch of the first caller
\* fails.
C21_BarrierLiveness ==
    \A p \in Procs : (pushes[p].pc = "sleep") ~> (pushes[p].pc = "done")

====
